---- MODULE Spec2Model ----
(***************************************************************************)
(* Hormone / mood engine of the persona package.                          *)
(*                                                                         *)
(* Numbers.  The program computes with floats.  Here a hormone level is an *)
(* integer number of 1e-4 steps (ONE = 1.0, BASELINE = 0.5), a classifier  *)
(* score or confidence is a number of tenths, a table weight a number of   *)
(* hundredths, so that weight * score * confidence is a delta in 1e-4      *)
(* steps with no rounding.  _apply_resistance multiplies a delta by a      *)
(* factor in 1e-5 steps, so its result is exact in 1e-9 steps (FINE of     *)
(* them per level step); the sum "level + delta" is rounded to the nearest *)
(* level step when it is stored, which stands for the rounding of the      *)
(* float addition.  Mood scores and intensities are in 1e-5 steps.         *)
(* Comparisons are those of exact arithmetic: a float difference such as   *)
(* 0.65 - 0.5, which is not exactly 0.15, is taken at its exact value.     *)
(***************************************************************************)
EXTENDS Integers, Sequences, FiniteSets, TLC

VARIABLES
    hormones,   \* persona/hormone_levels document: hormone -> level
    mood,       \* persona/mood_adjustments.json: the current-mood record
    ledger,     \* persona/mood_history.json: sequence of history entries
    clock,      \* logical time of datetime.utcnow(): number of update_mood calls so far
    steps,      \* number of operations run so far (bounded by MaxSteps)
    last,       \* what the latest operation did (its inputs and intermediate values)
    pc,         \* per session: position inside apply_sentiment_to_mood
    loc,        \* per session: the local variables of the running call
    fin,        \* input of the pure function under study
    fout        \* its result

vars == <<hormones, mood, ledger, clock, steps, last, pc, loc, fin, fout>>

\* ------------------------------------------------------------ numbers --

ONE == 10000
BASELINE == 5000
FINE == 100000

Abs(x) == IF x < 0 THEN 0 - x ELSE x
Min(a, b) == IF a < b THEN a ELSE b
Max(a, b) == IF a > b THEN a ELSE b

\* x (in 1e-9 steps) to the nearest level step
Quantize(x) == (x + (FINE \div 2)) \div FINE

Hormones == {"dopamine", "serotonin", "cortisol", "oxytocin"}

EmptyMap == [h \in {} |-> 0]

\* dict.get(key, default)
Get(d, k, default) == IF k \in DOMAIN d THEN d[k] ELSE default

\* ------------------------------------------------- hormone_adjuster.py --

_EMOTION_HORMONE_MAP ==
    [ joy            |-> [dopamine |-> 12, serotonin |-> 8],
      love           |-> [oxytocin |-> 15, dopamine |-> 8, serotonin |-> 5],
      admiration     |-> [dopamine |-> 6, oxytocin |-> 4],
      excitement     |-> [dopamine |-> 10, cortisol |-> 2],
      gratitude      |-> [serotonin |-> 8, oxytocin |-> 6],
      relief         |-> [cortisol |-> -8, serotonin |-> 5],
      pride          |-> [dopamine |-> 8, serotonin |-> 4],
      optimism       |-> [dopamine |-> 6, serotonin |-> 6],
      caring         |-> [oxytocin |-> 10, serotonin |-> 4],
      approval       |-> [dopamine |-> 5, oxytocin |-> 3],
      anger          |-> [cortisol |-> 12, dopamine |-> -5, serotonin |-> -4],
      sadness        |-> [serotonin |-> -10, cortisol |-> 6, dopamine |-> -4],
      fear           |-> [cortisol |-> 15, serotonin |-> -6],
      disgust        |-> [cortisol |-> 8, serotonin |-> -5],
      annoyance      |-> [cortisol |-> 6, serotonin |-> -3],
      disappointment |-> [dopamine |-> -8, serotonin |-> -5],
      embarrassment  |-> [cortisol |-> 8, oxytocin |-> -4],
      grief          |-> [serotonin |-> -12, cortisol |-> 10],
      nervousness    |-> [cortisol |-> 10, dopamine |-> -3],
      remorse        |-> [serotonin |-> -6, cortisol |-> 5],
      surprise       |-> [dopamine |-> 4, cortisol |-> 2],
      curiosity      |-> [dopamine |-> 5],
      confusion      |-> [cortisol |-> 3],
      neutral        |-> EmptyMap ]

_TOXICITY_HORMONE_MAP ==
    [ TOXIC         |-> [cortisol |-> 15, serotonin |-> -8],
      toxic         |-> [cortisol |-> 15, serotonin |-> -8],
      severe_toxic  |-> [cortisol |-> 20, serotonin |-> -12, dopamine |-> -6],
      obscene       |-> [cortisol |-> 10, serotonin |-> -6],
      threat        |-> [cortisol |-> 18, dopamine |-> -8],
      insult        |-> [cortisol |-> 12, serotonin |-> -8],
      identity_hate |-> [cortisol |-> 15, serotonin |-> -10] ]

_RATE_LIMIT == 800
_DECAY_STEP == 100
_CONFIDENCE_THRESHOLD == 3
_TOXICITY_THRESHOLD == 5

\* str.lower() on the labels the classifiers produce
Lower(label) ==
    CASE label = "TOXIC" -> "toxic"
      [] label = "NOT_TOXIC" -> "not_toxic"
      [] label = "Joy" -> "joy"
      [] label = "FEAR" -> "fear"
      [] OTHER -> label

\* result in 1e-9 steps for a level and a delta in 1e-4 steps
_apply_resistance_nolevel(current, delta) == delta * (10 * ONE)
_apply_resistance_inverted(current, delta) ==
    delta * ((4 * ONE) + 6 * (2 * Abs(current - BASELINE)))
_apply_resistance(current, delta) ==
    LET distance == ONE - Abs(current - BASELINE) * 2
    IN  delta * ((4 * ONE) + 6 * distance)

\* hormone_deltas[hormone] = hormone_deltas.get(hormone, 0) + scaled, for each entry of table
Accumulate_overwrite(deltas, table, scale) ==
    [h \in DOMAIN deltas \cup DOMAIN table |->
        IF h \in DOMAIN table THEN table[h] * scale ELSE deltas[h]]
Accumulate(deltas, table, scale) ==
    [h \in DOMAIN deltas \cup DOMAIN table |->
        Get(deltas, h, 0) + (IF h \in DOMAIN table THEN table[h] * scale ELSE 0)]

\* A signal is what the three classifiers return for a text:
\*   emotions : sequence of [label, score], best first (detect_emotion)
\*   toxicity : [is_toxic, score, label]            (detect_toxicity)
\*   conf     : overall_confidence                  (analyze_sentiment_confidence)
\*
\* `emotions and confidence["overall_confidence"] > _CONFIDENCE_THRESHOLD`
EmotionFires_atthreshold(sig) ==
    Len(sig.emotions) > 0 /\ sig.conf >= _CONFIDENCE_THRESHOLD
EmotionFires(sig) ==
    Len(sig.emotions) > 0 /\ sig.conf > _CONFIDENCE_THRESHOLD

\* `toxicity_result.get("is_toxic", False)` and `toxic_score > _TOXICITY_THRESHOLD`
ToxicityFires_atthreshold(sig) ==
    /\ sig.toxicity.is_toxic
    /\ sig.toxicity.score >= _TOXICITY_THRESHOLD
ToxicityFires(sig) ==
    /\ sig.toxicity.is_toxic
    /\ sig.toxicity.score > _TOXICITY_THRESHOLD

\* adjustment_reasons: a tag is appended inside the `in` test of its table
ReasonTags_untested(primary_emotion, emo_known, toxicity_detected, tox_known) ==
    <<<<"emotion", primary_emotion>>>>
    \o (IF Len(toxicity_detected) > 0 THEN <<<<"toxicity", toxicity_detected[1]>>>> ELSE <<>>)
ReasonTags(primary_emotion, emo_known, toxicity_detected, tox_known) ==
    (IF emo_known THEN <<<<"emotion", primary_emotion>>>> ELSE <<>>)
    \o (IF tox_known THEN <<<<"toxicity", toxicity_detected[1]>>>> ELSE <<>>)

analyze_contextual_sentiment(sig) ==
    LET fires == EmotionFires(sig)
        primary_emotion == IF fires THEN Lower(sig.emotions[1].label) ELSE "neutral"
        emotion_intensity == IF fires THEN sig.emotions[1].score ELSE 0
        toxic == ToxicityFires(sig)
        toxicity_detected == IF toxic THEN <<Lower(sig.toxicity.label)>> ELSE <<>>
        max_toxicity_score == IF toxic THEN sig.toxicity.score ELSE 0
        emo_known == primary_emotion \in DOMAIN _EMOTION_HORMONE_MAP
        tox_known == /\ toxic
                     /\ toxicity_detected[1] \in DOMAIN _TOXICITY_HORMONE_MAP
        d1 == IF emo_known
              THEN Accumulate(EmptyMap, _EMOTION_HORMONE_MAP[primary_emotion],
                              emotion_intensity * sig.conf)
              ELSE EmptyMap
        d2 == IF tox_known
              THEN Accumulate(d1, _TOXICITY_HORMONE_MAP[toxicity_detected[1]],
                              max_toxicity_score * 10)
              ELSE d1
    IN  [ primary_emotion    |-> primary_emotion,
          emotion_intensity  |-> emotion_intensity,
          toxicity_detected  |-> toxicity_detected,
          toxicity_score     |-> max_toxicity_score,
          hormone_deltas     |-> d2,
          adjustment_reasons |->
              ReasonTags(primary_emotion, emo_known, toxicity_detected, tox_known) ]

\* hormone_api.load_hormone_levels: the persisted levels
load_hormone_levels(store) == store

\* hormone_api.save_hormone_levels: every level clamped to [0,1] before it is written
save_hormone_levels(levels) ==
    [h \in DOMAIN levels |-> Max(0, Min(ONE, levels[h]))]

\* delta = max(-_RATE_LIMIT, min(_RATE_LIMIT, base_delta))
RateLimited_unclamped(base_delta) == base_delta
RateLimited(base_delta) == Max(0 - _RATE_LIMIT, Min(_RATE_LIMIT, base_delta))

\* one pass of the loop body over a hormone that has a delta
AdjustedLevel(current, base_delta) ==
    LET delta == _apply_resistance(current, RateLimited(base_delta))
    IN  Max(0, Min(ONE, Quantize(current * FINE + delta)))

\* one pass of the decay loop body
DecayedLevel_nosnap(level) ==
    IF level > BASELINE THEN level - _DECAY_STEP ELSE level + _DECAY_STEP
DecayedLevel(level) ==
    IF Abs(level - BASELINE) < _DECAY_STEP THEN BASELINE
    ELSE IF level > BASELINE THEN level - _DECAY_STEP
    ELSE level + _DECAY_STEP

\* hormones[hormone] in the loop over the deltas: a KeyError when the loaded
\* levels have no entry for a hormone of the delta map; it is caught nowhere,
\* and save_hormone_levels(updated) is not reached
KeyErrorRaised(levels, deltas) == \E h \in DOMAIN deltas : h \notin DOMAIN levels

\* `updated` as computed from the loaded levels and the analysis (no KeyError)
UpdatedLevels_decay_too(levels, deltas) ==
    [h \in DOMAIN levels |->
        DecayedLevel(IF h \in DOMAIN deltas THEN AdjustedLevel(levels[h], deltas[h])
                     ELSE levels[h])]
UpdatedLevels_decay_rest(levels, deltas) ==
    [h \in DOMAIN levels |->
        IF h \in DOMAIN deltas THEN AdjustedLevel(levels[h], deltas[h])
        ELSE DecayedLevel(levels[h])]
UpdatedLevels(levels, deltas) ==
    IF DOMAIN deltas # {}
    THEN [h \in DOMAIN levels |->
            IF h \in DOMAIN deltas THEN AdjustedLevel(levels[h], deltas[h])
            ELSE levels[h]]
    ELSE [h \in DOMAIN levels |-> DecayedLevel(levels[h])]

\* what apply_contextual_hormone_adjustments leaves in the store
apply_contextual_unclamped(store, sig) ==
    LET deltas == analyze_contextual_sentiment(sig).hormone_deltas
    IN  [h \in DOMAIN store |->
            IF h \in DOMAIN deltas
            THEN Quantize(store[h] * FINE
                          + _apply_resistance(store[h], RateLimited(deltas[h])))
            ELSE store[h]]
apply_contextual_hormone_adjustments(store, sig) ==
    LET analysis == analyze_contextual_sentiment(sig)
        levels == load_hormone_levels(store)
    IN  IF KeyErrorRaised(levels, analysis.hormone_deltas)
        THEN store
        ELSE save_hormone_levels(UpdatedLevels(levels, analysis.hormone_deltas))

\* whether apply_contextual_hormone_adjustments(text) raises instead of returning
apply_contextual_raises(store, sig) ==
    KeyErrorRaised(load_hormone_levels(store),
                   analyze_contextual_sentiment(sig).hormone_deltas)

\* ------------------------------------------------------ mood_tracker.py --

DRIFT_MAX == 200
HISTORY_CAP == 100

\* the hormone loop of simulate_hormone_fluctuation; drift[h] stands for
\* random.uniform(-0.02, 0.02)
FluctuatedLevels(levels, drift) ==
    [h \in DOMAIN levels |->
        LET baseline_pull == (BASELINE - levels[h]) * (FINE \div 100)
        IN  Max(0, Min(ONE, Quantize(levels[h] * FINE + drift[h] * FINE + baseline_pull)))]

\* the mood_scores dict, as the sequence of its items in insertion order;
\* scores in 1e-5 steps
mood_scores_loose(hormone_levels) ==
    LET dopa_dev == Get(hormone_levels, "dopamine", BASELINE) - BASELINE
        sero_dev == Get(hormone_levels, "serotonin", BASELINE) - BASELINE
        cort_dev == Get(hormone_levels, "cortisol", BASELINE) - BASELINE
        oxy_dev  == Get(hormone_levels, "oxytocin", BASELINE) - BASELINE
        item(n, s) == <<[name |-> n, score |-> s]>>
        cortisol_block ==
            IF cort_dev > 500
            THEN (IF sero_dev < -500
                  THEN item("anxious", Abs(cort_dev) * 10 + Abs(sero_dev) * 7) ELSE <<>>)
              \o (IF dopa_dev < -500
                  THEN item("restless", Abs(cort_dev) * 10 + Abs(dopa_dev) * 6) ELSE <<>>)
              \o (IF cort_dev > 1500
                  THEN item("stressed", Abs(cort_dev) * 12) ELSE <<>>)
            ELSE <<>>
        serotonin_block ==
            IF sero_dev < -800
            THEN (IF dopa_dev < -500
                  THEN item("depressed", Abs(sero_dev) * 10 + Abs(dopa_dev) * 8)
                  ELSE IF cort_dev > 500
                  THEN item("melancholic", Abs(sero_dev) * 10 + Abs(cort_dev) * 6)
                  ELSE item("sad", Abs(sero_dev) * 11))
            ELSE <<>>
        dopamine_block ==
            IF dopa_dev > 800
            THEN (IF oxy_dev > 500
                  THEN item("euphoric", dopa_dev * 10 + oxy_dev * 8)
                  ELSE IF sero_dev > 500
                  THEN item("cheerful", dopa_dev * 10 + sero_dev * 7)
                  ELSE item("energetic", dopa_dev * 12))
            ELSE <<>>
        oxytocin_block ==
            IF oxy_dev > 1000
            THEN (IF dopa_dev > 500
                  THEN item("loving", oxy_dev * 10 + dopa_dev * 6)
                  ELSE IF sero_dev > 300
                  THEN item("affectionate", oxy_dev * 10 + sero_dev * 8)
                  ELSE item("caring", oxy_dev * 11))
            ELSE <<>>
        content_block ==
            IF dopa_dev > 300 /\ sero_dev > 300 /\ cort_dev < 1000
            THEN item("content", (dopa_dev + sero_dev) * 8) ELSE <<>>
        conflicted_block ==
            IF Abs(dopa_dev) > 500 /\ Abs(sero_dev) > 500 /\ Abs(cort_dev) > 500
            THEN item("conflicted", (Abs(dopa_dev) + Abs(sero_dev) + Abs(cort_dev)) * 4)
            ELSE <<>>
    IN  cortisol_block \o serotonin_block \o dopamine_block \o oxytocin_block
            \o content_block \o conflicted_block
mood_scores(hormone_levels) ==
    LET dopa_dev == Get(hormone_levels, "dopamine", BASELINE) - BASELINE
        sero_dev == Get(hormone_levels, "serotonin", BASELINE) - BASELINE
        cort_dev == Get(hormone_levels, "cortisol", BASELINE) - BASELINE
        oxy_dev  == Get(hormone_levels, "oxytocin", BASELINE) - BASELINE
        item(n, s) == <<[name |-> n, score |-> s]>>
        cortisol_block ==
            IF cort_dev > 1000
            THEN (IF sero_dev < -500
                  THEN item("anxious", Abs(cort_dev) * 10 + Abs(sero_dev) * 7) ELSE <<>>)
              \o (IF dopa_dev < -500
                  THEN item("restless", Abs(cort_dev) * 10 + Abs(dopa_dev) * 6) ELSE <<>>)
              \o (IF cort_dev > 1500
                  THEN item("stressed", Abs(cort_dev) * 12) ELSE <<>>)
            ELSE <<>>
        serotonin_block ==
            IF sero_dev < -800
            THEN (IF dopa_dev < -500
                  THEN item("depressed", Abs(sero_dev) * 10 + Abs(dopa_dev) * 8)
                  ELSE IF cort_dev > 500
                  THEN item("melancholic", Abs(sero_dev) * 10 + Abs(cort_dev) * 6)
                  ELSE item("sad", Abs(sero_dev) * 11))
            ELSE <<>>
        dopamine_block ==
            IF dopa_dev > 800
            THEN (IF oxy_dev > 500
                  THEN item("euphoric", dopa_dev * 10 + oxy_dev * 8)
                  ELSE IF sero_dev > 500
                  THEN item("cheerful", dopa_dev * 10 + sero_dev * 7)
                  ELSE item("energetic", dopa_dev * 12))
            ELSE <<>>
        oxytocin_block ==
            IF oxy_dev > 1000
            THEN (IF dopa_dev > 500
                  THEN item("loving", oxy_dev * 10 + dopa_dev * 6)
                  ELSE IF sero_dev > 300
                  THEN item("affectionate", oxy_dev * 10 + sero_dev * 8)
                  ELSE item("caring", oxy_dev * 11))
            ELSE <<>>
        content_block ==
            IF dopa_dev > 300 /\ sero_dev > 300 /\ cort_dev < 1000
            THEN item("content", (dopa_dev + sero_dev) * 8) ELSE <<>>
        conflicted_block ==
            IF Abs(dopa_dev) > 500 /\ Abs(sero_dev) > 500 /\ Abs(cort_dev) > 500
            THEN item("conflicted", (Abs(dopa_dev) + Abs(sero_dev) + Abs(cort_dev)) * 4)
            ELSE <<>>
    IN  cortisol_block \o serotonin_block \o dopamine_block \o oxytocin_block
            \o content_block \o conflicted_block

\* max(mood_scores.items(), key=lambda x: x[1]): the first item with the largest score
TopMood_last(items) ==
    items[CHOOSE i \in 1..Len(items) :
            /\ \A j \in 1..Len(items) : items[j].score <= items[i].score
            /\ \A j \in (i+1)..Len(items) : items[j].score < items[i].score]
TopMood_lowest(items) ==
    items[CHOOSE i \in 1..Len(items) :
            /\ \A j \in 1..Len(items) : items[j].score >= items[i].score
            /\ \A j \in 1..(i-1) : items[j].score > items[i].score]
TopMood(items) ==
    items[CHOOSE i \in 1..Len(items) :
            /\ \A j \in 1..Len(items) : items[j].score <= items[i].score
            /\ \A j \in 1..(i-1) : items[j].score < items[i].score]

NEUTRAL_INTENSITY == 50000
MIN_INTENSITY == 10000
MAX_INTENSITY == 100000

calculate_mood_unclamped(hormone_levels) ==
    LET items == mood_scores(hormone_levels)
    IN  IF items = <<>>
        THEN [mood |-> "neutral", intensity |-> NEUTRAL_INTENSITY]
        ELSE [mood |-> TopMood(items).name, intensity |-> TopMood(items).score]
calculate_mood_neutral_clamped(hormone_levels) ==
    LET items == mood_scores(hormone_levels)
        top_mood == IF items = <<>> THEN [name |-> "neutral", score |-> 0]
                    ELSE TopMood(items)
    IN  [mood |-> top_mood.name,
         intensity |-> Min(MAX_INTENSITY, Max(MIN_INTENSITY, top_mood.score))]
calculate_mood_from_hormones(hormone_levels) ==
    LET items == mood_scores(hormone_levels)
    IN  IF items = <<>>
        THEN [mood |-> "neutral", intensity |-> NEUTRAL_INTENSITY]
        ELSE LET top_mood == TopMood(items)
             IN  [mood |-> top_mood.name,
                  intensity |-> Min(MAX_INTENSITY, Max(MIN_INTENSITY, top_mood.score))]

\* hormone_api.get_mood_context(mood, intensity).  is_hybrid reports a near-tie
\* with a second candidate, which (mood, intensity) do not determine: it is the
\* input `hybrid`.
COMMON_MOODS == {"neutral", "content", "sad", "anxious"}

get_mood_context(new_mood, intensity, hybrid) ==
    [ is_hybrid   |-> hybrid,
      is_emergent |-> new_mood \notin COMMON_MOODS,
      stability   |-> IF intensity < 35000 THEN "low"
                      ELSE IF intensity < 70000 THEN "medium" ELSE "high" ]

\* `word in reason`, for the reasons and the two words of update_mood
Contains(reason, word) ==
    <<reason, word>> \in
        { <<"contextual_analysis", "contextual">>,
          <<"hormone_event:stress", "hormone_event">>,
          <<"noncontextual", "contextual">> }

\* the history file is [status, entries]: entries is the sequence appended to
\* it so far, status tells what reading it gives: "ok", "missing", or "corrupt"
\* for a file whose read or parse fails (one cut short by an interrupted
\* write, say), whatever had been appended to it
load_mood_history(file) == IF file.status = "ok" THEN file.entries ELSE <<>>

save_mood_history(history) == [status |-> "ok", entries |-> history]

\* one call of load_mood_history(): whether it raises, what it returns, and the
\* file after it.  A missing file is created holding []; create_ok tells
\* whether that write succeeds (its failure is caught and only printed).
load_mood_history_uncaught(file, create_ok) ==
    IF file.status = "corrupt" \/ (file.status = "missing" /\ ~create_ok)
    THEN [raised |-> TRUE, file |-> file]
    ELSE [ raised  |-> FALSE,
           history |-> load_mood_history(file),
           file    |-> IF file.status = "missing" THEN save_mood_history(<<>>) ELSE file ]
load_mood_history_call(file, create_ok) ==
    [ raised  |-> FALSE,
      history |-> load_mood_history(file),
      file    |-> IF file.status = "missing" /\ create_ok
                  THEN save_mood_history(<<>>) ELSE file ]

\* history[-100:] when len(history) > 100
Truncated_oldest(history) ==
    IF Len(history) > HISTORY_CAP THEN SubSeq(history, 1, HISTORY_CAP) ELSE history
Truncated(history) ==
    IF Len(history) > HISTORY_CAP
    THEN SubSeq(history, Len(history) - HISTORY_CAP + 1, Len(history))
    ELSE history

\* the record update_mood writes to the current-mood file
mood_data(new_mood, intensity, hormone_context, now) ==
    [ current_mood |-> new_mood,
      intensity    |-> intensity,
      context      |-> hormone_context,
      last_updated |-> now ]

\* the entry update_mood appends; levels is what load_hormone_levels() returns
\* at the time of the snapshot
history_entry_contextual_only(new_mood, intensity, reason, hormone_context, now, levels) ==
    LET base == [ timestamp   |-> now,
                  mood        |-> new_mood,
                  intensity   |-> intensity,
                  reason      |-> reason,
                  is_hybrid   |-> hormone_context.is_hybrid,
                  is_emergent |-> hormone_context.is_emergent,
                  stability   |-> hormone_context.stability ]
    IN  IF reason # "" /\ Contains(reason, "contextual")
        THEN base @@ [hormone_snapshot |-> levels]
        ELSE base
history_entry(new_mood, intensity, reason, hormone_context, now, levels) ==
    LET base == [ timestamp   |-> now,
                  mood        |-> new_mood,
                  intensity   |-> intensity,
                  reason      |-> reason,
                  is_hybrid   |-> hormone_context.is_hybrid,
                  is_emergent |-> hormone_context.is_emergent,
                  stability   |-> hormone_context.stability ]
    IN  IF reason # "" /\ (Contains(reason, "contextual") \/ Contains(reason, "hormone_event"))
        THEN base @@ [hormone_snapshot |-> levels]
        ELSE base

\* history.append(entry), the cap, save_mood_history(history)
AppendedHistory(history, entry) == save_mood_history(Truncated(Append(history, entry)))

\* update_mood on the files st = [hormones, mood, ledger, clock].  io tells which
\* writes go through: write_ok the write of the current-mood file (on its
\* failure the call returns at once), save_ok the writes of the history file
\* (their failure is caught in load_mood_history and save_mood_history, and the
\* call goes on).  Returns the files after the call.
update_mood_io_appends_anyway(st, new_mood, intensity, reason, hormone_context, io) ==
    LET entry == history_entry(new_mood, intensity, reason, hormone_context,
                               st.clock + 2, load_hormone_levels(st.hormones))
    IN  [st EXCEPT
            !.mood = IF io.write_ok
                     THEN mood_data(new_mood, intensity, hormone_context, st.clock + 1)
                     ELSE st.mood,
            !.ledger = IF io.save_ok
                       THEN AppendedHistory(load_mood_history(st.ledger), entry)
                       ELSE st.ledger,
            !.clock = st.clock + 2]
update_mood_io(st, new_mood, intensity, reason, hormone_context, io) ==
    LET entry == history_entry(new_mood, intensity, reason, hormone_context,
                               st.clock + 2, load_hormone_levels(st.hormones))
    IN  IF ~io.write_ok
        THEN [st EXCEPT !.clock = st.clock + 1]
        ELSE [st EXCEPT
                !.mood = mood_data(new_mood, intensity, hormone_context, st.clock + 1),
                !.ledger = IF io.save_ok
                           THEN AppendedHistory(load_mood_history(st.ledger), entry)
                           ELSE load_mood_history_call(st.ledger, FALSE).file,
                !.clock = st.clock + 2]

\* update_mood with the history file writable
update_mood(st, new_mood, intensity, reason, hormone_context, write_ok) ==
    update_mood_io(st, new_mood, intensity, reason, hormone_context,
                   [write_ok |-> write_ok, save_ok |-> TRUE])

update_mood_from_hormones(st, reason, hybrid, write_ok) ==
    LET hormone_levels == load_hormone_levels(st.hormones)
        m == calculate_mood_from_hormones(hormone_levels)
        context == get_mood_context(m.mood, m.intensity, hybrid)
    IN  update_mood(st, m.mood, m.intensity, reason, context, write_ok)

\* what update_mood_from_hormones returns: (mood, intensity, context)
MoodResult(st, hybrid) ==
    LET m == calculate_mood_from_hormones(load_hormone_levels(st.hormones))
    IN  [ mood      |-> m.mood,
          intensity |-> m.intensity,
          context   |-> get_mood_context(m.mood, m.intensity, hybrid) ]

Files == [hormones |-> hormones, mood |-> mood, ledger |-> ledger, clock |-> clock]

SetFiles(st) ==
    /\ hormones' = st.hormones
    /\ mood' = st.mood
    /\ ledger' = st.ledger
    /\ clock' = st.clock

\* ------------------------------------------------------------- inputs --

MaxSteps == 2

NotToxic == [is_toxic |-> FALSE, score |-> 0, label |-> "NOT_TOXIC"]
Tox(flag, score, label) == [is_toxic |-> flag, score |-> score, label |-> label]
Emo(label, score) == [label |-> label, score |-> score]
Signal(emotions, conf, toxicity) ==
    [emotions |-> emotions, conf |-> conf, toxicity |-> toxicity]

NoSignal == Signal(<<>>, 0, NotToxic)

Signals ==
    { Signal(<<>>, 3, NotToxic),
      Signal(<<Emo("joy", 10)>>, 10, NotToxic),
      Signal(<<Emo("fear", 10)>>, 10, NotToxic),
      Signal(<<Emo("sadness", 8), Emo("joy", 2)>>, 6, NotToxic),
      Signal(<<Emo("joy", 10)>>, 3, NotToxic),
      Signal(<<Emo("Joy", 5)>>, 10, Tox(TRUE, 9, "TOXIC")),
      Signal(<<Emo("wonder", 9)>>, 10, NotToxic),
      Signal(<<Emo("relief", 10)>>, 10, Tox(FALSE, 9, "TOXIC")),
      Signal(<<>>, 8, Tox(TRUE, 10, "threat")),
      Signal(<<>>, 2, Tox(TRUE, 5, "TOXIC")),
      Signal(<<Emo("love", 7)>>, 4, Tox(TRUE, 8, "spam")),
      Signal(<<Emo("wonder", 9)>>, 10, Tox(TRUE, 8, "spam")) }

Levels(d, s, c, o) == [dopamine |-> d, serotonin |-> s, cortisol |-> c, oxytocin |-> o]

\* stored levels the runs start from
InitLevels ==
    { Levels(5000, 5000, 5000, 5000),
      Levels(0, 0, 0, 0),
      Levels(10000, 10000, 10000, 10000),
      Levels(9700, 9700, 9700, 9700),
      Levels(300, 300, 300, 300),
      Levels(3000, 2000, 8000, 4000),
      Levels(8000, 7000, 3000, 9000),
      Levels(5050, 4950, 5100, 4985) }

Drifts ==
    { Levels(DRIFT_MAX, DRIFT_MAX, DRIFT_MAX, DRIFT_MAX),
      Levels(0 - DRIFT_MAX, 0 - DRIFT_MAX, 0 - DRIFT_MAX, 0 - DRIFT_MAX),
      Levels(0, 137, 0 - DRIFT_MAX, DRIFT_MAX) }

DefaultMood ==
    [ current_mood |-> "neutral",
      intensity    |-> NEUTRAL_INTENSITY,
      context      |-> [is_hybrid |-> FALSE, is_emergent |-> FALSE, stability |-> "medium"],
      last_updated |-> 0 ]

EmptyLedger == [status |-> "ok", entries |-> <<>>]

\* ------------------------------------------------- single-session runs --

NoLast == [op |-> "none", before |-> Levels(0, 0, 0, 0), sig |-> NoSignal, drift |-> Levels(0, 0, 0, 0)]

Idle ==
    /\ pc = <<>>
    /\ loc = <<>>
    /\ fin = <<>>
    /\ fout = <<>>

Init ==
    /\ hormones \in InitLevels
    /\ mood = DefaultMood
    /\ ledger = EmptyLedger
    /\ clock = 0
    /\ steps = 0
    /\ last = NoLast
    /\ Idle

Step(op, sig, drift) ==
    /\ steps < MaxSteps
    /\ steps' = steps + 1
    /\ last' = [op |-> op, before |-> hormones, sig |-> sig, drift |-> drift]
    /\ UNCHANGED <<pc, loc, fin, fout>>

\* apply_contextual_hormone_adjustments(text), called on its own
ApplyContextual(sig) ==
    /\ Step("apply_contextual_hormone_adjustments", sig, Levels(0, 0, 0, 0))
    /\ hormones' = apply_contextual_hormone_adjustments(hormones, sig)
    /\ UNCHANGED <<mood, ledger, clock>>

\* apply_sentiment_to_mood(text)
\* the files after the call; the exception of apply_contextual_hormone_adjustments
\* passes through apply_sentiment_to_mood, which then has written nothing
apply_sentiment_to_mood(st, sig, hybrid, write_ok) ==
    LET new_hormones == apply_contextual_hormone_adjustments(st.hormones, sig)
    IN  IF apply_contextual_raises(st.hormones, sig)
        THEN st
        ELSE update_mood_from_hormones([st EXCEPT !.hormones = new_hormones],
                                       "contextual_analysis", hybrid, write_ok)

\* how the call ends: with an exception, or returning (mood, intensity, context)
apply_sentiment_to_mood_outcome(st, sig, hybrid) ==
    IF apply_contextual_raises(st.hormones, sig)
    THEN [raised |-> TRUE]
    ELSE LET new_hormones == apply_contextual_hormone_adjustments(st.hormones, sig)
             result == MoodResult([st EXCEPT !.hormones = new_hormones], hybrid)
         IN  [ raised    |-> FALSE,
               mood      |-> result.mood,
               intensity |-> result.intensity,
               context   |-> result.context ]

ApplySentimentToMood(sig, hybrid) ==
    /\ Step("apply_sentiment_to_mood", sig, Levels(0, 0, 0, 0))
    /\ SetFiles(apply_sentiment_to_mood(Files, sig, hybrid, TRUE))

\* simulate_hormone_fluctuation()
simulate_hormone_fluctuation(st, drift, hybrid) ==
    LET fluctuated == FluctuatedLevels(load_hormone_levels(st.hormones), drift)
    IN  update_mood_from_hormones([st EXCEPT !.hormones = save_hormone_levels(fluctuated)],
                                  "natural_fluctuation", hybrid, TRUE)

SimulateHormoneFluctuation(drift, hybrid) ==
    /\ Step("simulate_hormone_fluctuation", NoSignal, drift)
    /\ SetFiles(simulate_hormone_fluctuation(Files, drift, hybrid))

Next ==
    \/ \E sig \in Signals : ApplyContextual(sig)
    \/ \E sig \in Signals, hybrid \in BOOLEAN : ApplySentimentToMood(sig, hybrid)
    \/ \E drift \in Drifts, hybrid \in BOOLEAN : SimulateHormoneFluctuation(drift, hybrid)

Spec == Init /\ [][Next]_vars

\* C1: after any sequence of apply_contextual_hormone_adjustments and
\* simulate_hormone_fluctuation calls from levels in [0,1], every stored level
\* is in [0,1].
LevelsInDomain ==
    \A h \in Hormones : h \in DOMAIN hormones /\ 0 <= hormones[h] /\ hormones[h] <= ONE

\* a level has been pushed against an end of the domain by an update
LevelsInDomain_witness ==
    /\ steps = MaxSteps
    /\ last.op = "apply_contextual_hormone_adjustments"
    /\ last.before["cortisol"] < ONE
    /\ hormones["cortisol"] = ONE

\* C6: in every update the summed raw delta of a hormone is clamped to
\* [-0.08, +0.08] before the resistance curve: the stored level is the old level
\* plus the resistance of the clamped delta, and fear at score 1.0 and
\* confidence 1.0 (raw cortisol delta 0.15) enters as exactly 0.08.
RateLimitBeforeResistance ==
    last.op \in {"apply_contextual_hormone_adjustments", "apply_sentiment_to_mood"} =>
        LET deltas == analyze_contextual_sentiment(last.sig).hormone_deltas
            entering(h) == IF deltas[h] > 800 THEN 800
                           ELSE IF deltas[h] < -800 THEN -800 ELSE deltas[h]
            result(h, d) ==
                Max(0, Min(ONE, Quantize(last.before[h] * FINE
                                         + _apply_resistance(last.before[h], d))))
        IN  /\ \A h \in DOMAIN deltas : hormones[h] = result(h, entering(h))
            /\ last.sig = Signal(<<Emo("fear", 10)>>, 10, NotToxic) =>
                 /\ deltas["cortisol"] = 1500
                 /\ hormones["cortisol"] = result("cortisol", 800)

\* fear at full score and confidence, applied at baseline: cortisol rose by 0.08
RateLimitBeforeResistance_witness ==
    /\ last.op = "apply_contextual_hormone_adjustments"
    /\ last.sig = Signal(<<Emo("fear", 10)>>, 10, NotToxic)
    /\ last.before["cortisol"] = BASELINE
    /\ hormones["cortisol"] = BASELINE + 800

\* ------------------------------------------------------ neutral decay --

MaxDecaySteps == 52

\* the signals whose delta map is empty
NeutralSignals ==
    {sig \in Signals : DOMAIN analyze_contextual_sentiment(sig).hormone_deltas = {}}

DecayStarts == {0, 1, 99, 100, 4715, 4900, 4901, 4999, 5000, 5001, 5100, 5101, 9950, 10000}

\* fin remembers the levels the run started from; steps counts the neutral updates
InitDecay ==
    /\ \E a \in DecayStarts, b \in DecayStarts : hormones = Levels(a, b, ONE - a, ONE - b)
    /\ fin = hormones
    /\ mood = DefaultMood
    /\ ledger = EmptyLedger
    /\ clock = 0
    /\ steps = 0
    /\ last = NoLast
    /\ pc = <<>>
    /\ loc = <<>>
    /\ fout = <<>>

NeutralUpdate(sig) ==
    /\ steps < MaxDecaySteps
    /\ steps' = steps + 1
    /\ hormones' = apply_contextual_hormone_adjustments(hormones, sig)
    /\ UNCHANGED <<mood, ledger, clock, last, pc, loc, fin, fout>>

NextDecay == \E sig \in NeutralSignals : NeutralUpdate(sig)

SpecDecay == InitDecay /\ [][NextDecay]_vars

\* ceil(|level - 0.5| / 0.01)
StepsToBaseline(level) == (Abs(level - BASELINE) + _DECAY_STEP - 1) \div _DECAY_STEP

\* C2: repeated neutral updates bring a hormone from L to exactly 0.5 within
\* ceil(|L-0.5|/0.01) updates; the distance to 0.5 never increases, the level
\* never crosses 0.5, and at 0.5 it stays.
DecayConverges ==
    /\ [](\A h \in Hormones :
            steps >= StepsToBaseline(fin[h]) => hormones[h] = BASELINE)
    /\ [][\A h \in Hormones :
            /\ Abs(hormones'[h] - BASELINE) <= Abs(hormones[h] - BASELINE)
            /\ (hormones[h] - BASELINE) * (hormones'[h] - BASELINE) >= 0
            /\ (hormones[h] = BASELINE => hormones'[h] = BASELINE)]_vars

\* dopamine started at 0 and reached 0.5 with the 50th update, not before
DecayConverges_witness ==
    /\ fin["dopamine"] = 0
    /\ fin["serotonin"] = 4715
    /\ steps = 50
    /\ hormones["dopamine"] = BASELINE
    /\ hormones["serotonin"] = BASELINE

\* --------------------------------------------------- the mood ledger --

MaxAppends == 2

\* an entry left by the i-th earlier update_mood call
PastEntry(i) ==
    history_entry("neutral", NEUTRAL_INTENSITY, "hormonal_shift",
                  get_mood_context("neutral", NEUTRAL_INTENSITY, FALSE), 2 * i,
                  Levels(BASELINE, BASELINE, BASELINE, BASELINE))

PastLedger(n) == [status |-> "ok", entries |-> [i \in 1..n |-> PastEntry(i)]]

\* lengths of the ledgers the runs start from
LedgerStarts == {0, 1, HISTORY_CAP - 1, HISTORY_CAP}

MoodInputs == {<<"neutral", 50000>>, <<"anxious", 42000>>, <<"loving", 100000>>}

Reasons == {"", "manual_reset", "contextual_analysis", "hormone_event:stress"}

InitLedger ==
    /\ hormones \in {Levels(5000, 5000, 5000, 5000), Levels(3000, 2000, 8000, 4000)}
    /\ mood = DefaultMood
    /\ \/ \E n \in LedgerStarts : ledger = PastLedger(n) /\ clock = 2 * n
       \/ /\ ledger \in {[status |-> "missing", entries |-> <<>>],
                         [status |-> "corrupt", entries |-> <<>>]}
          /\ clock = 0
    /\ steps = 0
    /\ last = [op |-> "none", write_ok |-> FALSE, reason |-> ""]
    /\ Idle

LedgerStep(op, reason, write_ok) ==
    /\ steps < MaxAppends
    /\ steps' = steps + 1
    /\ last' = [op |-> op, write_ok |-> write_ok, reason |-> reason]
    /\ UNCHANGED <<pc, loc, fin, fout>>

\* update_mood(new_mood, intensity, reason), no context given
UpdateMood(new_mood, intensity, reason, hybrid, write_ok) ==
    /\ LedgerStep("update_mood", reason, write_ok)
    /\ SetFiles(update_mood(Files, new_mood, intensity, reason,
                            get_mood_context(new_mood, intensity, hybrid), write_ok))

\* update_mood_from_hormones(reason)
UpdateMoodFromHormones(reason, hybrid, write_ok) ==
    /\ LedgerStep("update_mood_from_hormones", reason, write_ok)
    /\ SetFiles(update_mood_from_hormones(Files, reason, hybrid, write_ok))

NextLedger ==
    \/ \E m \in MoodInputs, reason \in Reasons, hybrid \in BOOLEAN, write_ok \in BOOLEAN :
          UpdateMood(m[1], m[2], reason, hybrid, write_ok)
    \/ \E reason \in {"hormonal_shift", "contextual_analysis"}, write_ok \in BOOLEAN :
          UpdateMoodFromHormones(reason, FALSE, write_ok)

SpecLedger == InitLedger /\ [][NextLedger]_vars

\* C3: after any number of update_mood calls from a ledger of at most 100
\* entries, the persisted history has at most 100 entries, in the order of
\* their appends: timestamps increase along it and the entry of the latest
\* successful call is the last one.
LedgerBoundedAndOrdered ==
    /\ Len(ledger.entries) <= HISTORY_CAP
    /\ \A i \in 1..(Len(ledger.entries) - 1) :
          ledger.entries[i].timestamp < ledger.entries[i + 1].timestamp
    /\ (last.op # "none" /\ last.write_ok) =>
          /\ ledger.status = "ok"
          /\ Len(ledger.entries) > 0
          /\ ledger.entries[Len(ledger.entries)].timestamp = clock
          /\ ledger.entries[Len(ledger.entries)].reason = last.reason

\* a full ledger took two more entries and dropped its two oldest
LedgerBoundedAndOrdered_witness ==
    /\ steps = 2
    /\ Len(ledger.entries) = HISTORY_CAP
    /\ ledger.entries[1].timestamp = 6
    /\ ledger.entries[HISTORY_CAP].timestamp = clock
    /\ ledger.entries[HISTORY_CAP - 1].timestamp = clock - 2

\* -------------------------------------------- update_mood and its writes --

\* what the two writes of one update_mood call do: both go through, the
\* current-mood file cannot be written, the history file cannot be written
IoOutcomes ==
    { [write_ok |-> TRUE,  save_ok |-> TRUE],
      [write_ok |-> FALSE, save_ok |-> TRUE],
      [write_ok |-> TRUE,  save_ok |-> FALSE] }

\* the arguments of the calls: <<new_mood, intensity, is_hybrid, reason>>
UpdateInputs ==
    { <<"neutral", 50000, FALSE, "">>,
      <<"anxious", 42000, TRUE,  "manual_reset">>,
      <<"neutral", 50000, FALSE, "hormonal_shift">>,
      <<"anxious", 42000, FALSE, "natural_fluctuation">>,
      <<"anxious", 42000, TRUE,  "contextual_analysis">>,
      <<"loving", 100000, FALSE, "hormone_event:stress">>,
      <<"neutral", 50000, TRUE,  "noncontextual">> }

\* the current-mood record written by the call that appended PastEntry(n)
PastRecord(n) ==
    mood_data("neutral", NEUTRAL_INTENSITY,
              get_mood_context("neutral", NEUTRAL_INTENSITY, FALSE), 2 * n - 1)

\* a history file of n appends whose read or parse now fails
DamagedLedger(n) == [status |-> "corrupt", entries |-> PastLedger(n).entries]

NoUpdate ==
    [op |-> "none", io |-> [write_ok |-> TRUE, save_ok |-> TRUE],
     args |-> <<"neutral", 50000, FALSE, "">>, before |-> EmptyLedger]

InitUpdate ==
    /\ hormones = Levels(3000, 2000, 8000, 4000)
    /\ \/ \E n \in LedgerStarts :
             /\ ledger = PastLedger(n)
             /\ mood = IF n = 0 THEN DefaultMood ELSE PastRecord(n)
             /\ clock = 2 * n
       \/ /\ ledger = [status |-> "missing", entries |-> <<>>]
          /\ mood = DefaultMood
          /\ clock = 0
       \/ \E n \in {1, 2} :
             /\ ledger = DamagedLedger(n)
             /\ mood = PastRecord(n)
             /\ clock = 2 * n
    /\ steps = 0
    /\ last = NoUpdate
    /\ Idle

\* update_mood(new_mood, intensity, reason), no context given
UpdateMoodIo(args, io) ==
    /\ steps < MaxAppends
    /\ steps' = steps + 1
    /\ last' = [op |-> "update_mood", io |-> io, args |-> args, before |-> ledger]
    /\ SetFiles(update_mood_io(Files, args[1], args[2], args[4],
                               get_mood_context(args[1], args[2], args[3]), io))
    /\ UNCHANGED <<pc, loc, fin, fout>>

NextUpdate == \E args \in UpdateInputs, io \in IoOutcomes : UpdateMoodIo(args, io)

SpecUpdate == InitUpdate /\ [][NextUpdate]_vars

\* C21: an update_mood call that writes the ledger leaves what had been
\* appended before it, followed by the new entry, minus only the oldest
\* entries beyond 100, also when the read of the history file failed.
LedgerAppendOnly ==
    (last.op = "update_mood" /\ last.io.write_ok /\ last.io.save_ok) =>
        LET old == last.before.entries
            new == ledger.entries
            n   == Len(new)
        IN  /\ ledger.status = "ok"
            /\ n = Min(Len(old) + 1, HISTORY_CAP)
            /\ new[n].mood = last.args[1]
            /\ new[n].reason = last.args[4]
            /\ \A i \in 1..(n - 1) : new[i] = old[Len(old) + 1 - n + i]

\* C22: an entry appended by update_mood carries a hormone_snapshot exactly
\* when its reason contains "contextual" or "hormone_event"; the snapshot is
\* the stored levels.
SnapshotIffTagged ==
    \A i \in 1..Len(ledger.entries) :
        LET e == ledger.entries[i]
        IN  /\ "hormone_snapshot" \in DOMAIN e <=>
                   e.reason \in {"contextual_analysis", "hormone_event:stress", "noncontextual"}
            /\ e.reason \in {"", "manual_reset", "hormonal_shift", "natural_fluctuation"} =>
                   DOMAIN e = DOMAIN PastEntry(1)
            /\ "hormone_snapshot" \in DOMAIN e => e.hormone_snapshot = hormones

\* two appends: one for a hormone event, with the snapshot, one for a natural
\* fluctuation, without
SnapshotIffTagged_witness ==
    /\ steps = 2
    /\ Len(ledger.entries) >= 2
    /\ LET n == Len(ledger.entries)
       IN  /\ ledger.entries[n - 1].reason = "hormone_event:stress"
           /\ "hormone_snapshot" \in DOMAIN ledger.entries[n - 1]
           /\ ledger.entries[n].reason = "natural_fluctuation"
           /\ "hormone_snapshot" \notin DOMAIN ledger.entries[n]

\* the record and the entry hold the same mood, intensity and context
Agree(record, entry) ==
    /\ record.current_mood = entry.mood
    /\ record.intensity = entry.intensity
    /\ record.context.is_hybrid = entry.is_hybrid
    /\ record.context.is_emergent = entry.is_emergent
    /\ record.context.stability = entry.stability

\* C28: after every update_mood call that returns, the current-mood record and
\* the newest entry of the ledger agree, whichever write failed.
RecordAgreesWithNewestEntry ==
    last.op = "update_mood" =>
        LET history == load_mood_history(ledger)
        IN  Len(history) > 0 => Agree(mood, history[Len(history)])

\* C29: when the write of the current-mood file fails, update_mood returns
\* with the history file as it was before the call (a missing one is not even
\* created).
FailedWriteLeavesLedger ==
    (last.op = "update_mood" /\ ~last.io.write_ok) => ledger = last.before

\* two calls with no history file yet, both failing to write the record
FailedWriteLeavesLedger_witness ==
    /\ steps = 2
    /\ ~last.io.write_ok
    /\ last.args[4] = "contextual_analysis"
    /\ ledger.status = "missing"

\* ------------------------------------------------ concurrent sessions --
\* Two sessions (processes) each run apply_sentiment_to_mood(text) once on the
\* same files.  A step is one read or one write of a file; the source takes no
\* lock around them.

Sessions == {1, 2}

\* signals with a non-empty delta map
ConcSignals ==
    { Signal(<<Emo("joy", 10)>>, 10, NotToxic),
      Signal(<<Emo("fear", 10)>>, 10, NotToxic),
      Signal(<<>>, 8, Tox(TRUE, 10, "threat")) }

NoLocals(sig) ==
    [ sig      |-> sig,
      hormones |-> Levels(0, 0, 0, 0),
      m        |-> [mood |-> "neutral", intensity |-> NEUTRAL_INTENSITY],
      context  |-> get_mood_context("neutral", NEUTRAL_INTENSITY, FALSE),
      history  |-> <<>>,
      now      |-> 0,
      snapshot |-> Levels(0, 0, 0, 0) ]

InitConc ==
    /\ hormones \in {Levels(5000, 5000, 5000, 5000), Levels(8000, 7000, 3000, 9000)}
    /\ fin = hormones
    /\ mood = DefaultMood
    /\ \E n \in {0, 1} : ledger = PastLedger(n) /\ clock = 2 * n
    /\ steps = 0
    /\ last = NoLast
    /\ pc = [s \in Sessions |-> "load_levels"]
    /\ loc \in [Sessions -> {NoLocals(sig) : sig \in ConcSignals}]
    /\ fout = <<>>

Goto(s, from, to) ==
    /\ pc[s] = from
    /\ pc' = [pc EXCEPT ![s] = to]
    /\ UNCHANGED <<steps, last, fin, fout>>

\* hormones = load_hormone_levels()
LoadLevels(s) ==
    /\ Goto(s, "load_levels", "save_levels")
    /\ loc' = [loc EXCEPT ![s].hormones = load_hormone_levels(hormones)]
    /\ UNCHANGED <<hormones, mood, ledger, clock>>

\* save_hormone_levels(updated)
SaveLevels(s) ==
    /\ Goto(s, "save_levels", "classify")
    /\ hormones' = save_hormone_levels(
            UpdatedLevels(loc[s].hormones,
                          analyze_contextual_sentiment(loc[s].sig).hormone_deltas))
    /\ UNCHANGED <<loc, mood, ledger, clock>>

\* update_mood_from_hormones: load_hormone_levels(), the mood, its context
Classify(s, hybrid) ==
    /\ Goto(s, "classify", "write_mood")
    /\ LET m == calculate_mood_from_hormones(load_hormone_levels(hormones))
       IN  loc' = [loc EXCEPT ![s].m = m,
                              ![s].context = get_mood_context(m.mood, m.intensity, hybrid)]
    /\ UNCHANGED <<hormones, mood, ledger, clock>>

\* update_mood: the write of the current-mood file
WriteMood(s) ==
    /\ Goto(s, "write_mood", "load_history")
    /\ clock' = clock + 1
    /\ mood' = mood_data(loc[s].m.mood, loc[s].m.intensity, loc[s].context, clock + 1)
    /\ UNCHANGED <<hormones, loc, ledger>>

\* update_mood: history = load_mood_history(), and the entry's timestamp
LoadHistory(s) ==
    /\ Goto(s, "load_history", "snapshot")
    /\ clock' = clock + 1
    /\ loc' = [loc EXCEPT ![s].history = load_mood_history(ledger),
                          ![s].now = clock + 1]
    /\ UNCHANGED <<hormones, mood, ledger>>

\* update_mood: history_entry["hormone_snapshot"] = load_hormone_levels()
Snapshot(s) ==
    /\ Goto(s, "snapshot", "save_history")
    /\ loc' = [loc EXCEPT ![s].snapshot = load_hormone_levels(hormones)]
    /\ UNCHANGED <<hormones, mood, ledger, clock>>

\* update_mood: append, cap, save_mood_history(history)
SaveHistory(s) ==
    /\ Goto(s, "save_history", "done")
    /\ ledger' = AppendedHistory(loc[s].history,
                    history_entry(loc[s].m.mood, loc[s].m.intensity, "contextual_analysis",
                                  loc[s].context, loc[s].now, loc[s].snapshot))
    /\ UNCHANGED <<hormones, mood, loc, clock>>

NextConc ==
    \E s \in Sessions :
        \/ LoadLevels(s)
        \/ SaveLevels(s)
        \/ \E hybrid \in BOOLEAN : Classify(s, hybrid)
        \/ WriteMood(s)
        \/ LoadHistory(s)
        \/ Snapshot(s)
        \/ SaveHistory(s)

SpecConc == InitConc /\ [][NextConc]_vars

\* the stored levels after session a's update and then session b's, one after the other
SerialLevels(a, b) ==
    apply_contextual_hormone_adjustments(
        apply_contextual_hormone_adjustments(fin, loc[a].sig), loc[b].sig)

\* C4: when two sessions run apply_contextual_hormone_adjustments concurrently,
\* each with a non-empty delta, no update is dropped: once both have saved, the
\* stored levels are those of the two updates applied in some serial order.
NoLostHormoneUpdate ==
    (\A s \in Sessions : pc[s] \notin {"load_levels", "save_levels"}) =>
        \/ hormones = SerialLevels(1, 2)
        \/ hormones = SerialLevels(2, 1)

\* C5: when two sessions run update_mood concurrently on a ledger below the
\* cap, both appended entries are in the persisted ledger once both calls have
\* finished.
NoLostHistoryEntry ==
    (\A s \in Sessions : pc[s] = "done") =>
        \A s \in Sessions :
            \E i \in 1..Len(ledger.entries) : ledger.entries[i].timestamp = loc[s].now

\* the levels session s computed from what it loaded, and saved
OwnLevels(s) ==
    save_hormone_levels(
        UpdatedLevels(loc[s].hormones,
                      analyze_contextual_sentiment(loc[s].sig).hormone_deltas))

\* C23: with another session running in between its steps, a finished
\* apply_sentiment_to_mood call has written the mood that classifies exactly the
\* levels it computed and saved, and attached those levels as the snapshot.
CycleSelfConsistent ==
    \A s \in Sessions :
        pc[s] = "done" =>
            /\ loc[s].m = calculate_mood_from_hormones(OwnLevels(s))
            /\ loc[s].snapshot = OwnLevels(s)

\* ------------------------------------------------- _apply_resistance --

ResGrid == 20

\* current levels tried: a grid over [0,1], the baseline, the ends, odd values
ResLevels ==
    {(i * ONE) \div ResGrid : i \in 0..ResGrid} \cup {0, 1, 4999, BASELINE, 5001, 9999, ONE}

\* deltas tried, also beyond the rate limit
ResDeltas == {-1500, -800, -37, -1, 0, 1, 260, 800, 1500}

InitResist ==
    /\ fin \in [a : ResLevels, b : ResLevels, delta : ResDeltas]
    /\ fout = [a |-> 0, b |-> 0]
    /\ steps = 0
    /\ hormones = Levels(BASELINE, BASELINE, BASELINE, BASELINE)
    /\ mood = DefaultMood
    /\ ledger = EmptyLedger
    /\ clock = 0
    /\ last = NoLast
    /\ pc = <<>>
    /\ loc = <<>>

\* _apply_resistance(a, delta) and _apply_resistance(b, delta)
ApplyResistance ==
    /\ steps = 0
    /\ steps' = 1
    /\ fout' = [a |-> _apply_resistance(fin.a, fin.delta),
                b |-> _apply_resistance(fin.b, fin.delta)]
    /\ UNCHANGED <<hormones, mood, ledger, clock, last, pc, loc, fin>>

NextResist == ApplyResistance

SpecResist == InitResist /\ [][NextResist]_vars

\* C7: for a fixed raw delta and levels a, b in [0,1] with |a-0.5| <= |b-0.5|,
\* the magnitude of _apply_resistance(b, delta) is at most that of
\* _apply_resistance(a, delta).
ResistanceMonotone ==
    (steps = 1 /\ Abs(fin.a - BASELINE) <= Abs(fin.b - BASELINE)) =>
        Abs(fout.b) <= Abs(fout.a)

\* b is farther from the baseline than a and is moved strictly less
ResistanceMonotone_witness ==
    /\ steps = 1
    /\ fin.delta = 800
    /\ Abs(fin.a - BASELINE) < Abs(fin.b - BASELINE)
    /\ Abs(fout.b) < Abs(fout.a)

\* C8: for every level in [0,1] and every delta, _apply_resistance returns
\* between 40% and 100% of the delta, with the delta's sign: all of it at 0.5,
\* exactly 40% of it at 0 and at 1.
ResistanceEfficacy ==
    steps = 1 =>
        /\ 4 * ONE * Abs(fin.delta) <= Abs(fout.a)
        /\ Abs(fout.a) <= 10 * ONE * Abs(fin.delta)
        /\ (fin.delta >= 0 => fout.a >= 0) /\ (fin.delta <= 0 => fout.a <= 0)
        /\ fin.a = BASELINE => fout.a = fin.delta * FINE
        /\ fin.a \in {0, ONE} => 10 * fout.a = 4 * fin.delta * FINE

\* a delta applied at an end of the domain, cut to 40%
ResistanceEfficacy_witness ==
    /\ steps = 1
    /\ fin.a = ONE
    /\ fin.delta = -800
    /\ fout.a = -320 * FINE

\* --------------------------------------- calculate_mood_from_hormones --

\* deviations from 0.5 tried for each hormone: on, next to and away from the
\* thresholds of the mood patterns
ClassDeviations ==
    {-5000, -4000, -1000, -900, -800, -600, -500, 0, 300, 400, 600, 900, 1100, 1600, 3500, 5000}

ClassLevels == {BASELINE + d : d \in ClassDeviations}

InitClassify ==
    /\ fin \in [Hormones -> ClassLevels]
    /\ fout = [mood |-> "", intensity |-> 0]
    /\ steps = 0
    /\ hormones = Levels(BASELINE, BASELINE, BASELINE, BASELINE)
    /\ mood = DefaultMood
    /\ ledger = EmptyLedger
    /\ clock = 0
    /\ last = NoLast
    /\ pc = <<>>
    /\ loc = <<>>

\* calculate_mood_from_hormones(fin)
Classify_pure ==
    /\ steps = 0
    /\ steps' = 1
    /\ fout' = calculate_mood_from_hormones(fin)
    /\ UNCHANGED <<hormones, mood, ledger, clock, last, pc, loc, fin>>

NextClassify == Classify_pure

SpecClassify == InitClassify /\ [][NextClassify]_vars

\* the catalogue order of the claim
Catalogue ==
    << "anxious", "restless", "stressed", "depressed", "melancholic", "sad",
       "euphoric", "cheerful", "energetic", "loving", "affectionate", "caring",
       "content", "conflicted" >>

CatalogueIndex(name) == CHOOSE i \in 1..Len(Catalogue) : Catalogue[i] = name

\* C10: calculate_mood_from_hormones returns the gated-on candidate with the
\* highest score, among equals the first in catalogue order, and returns
\* ("neutral", 0.5) exactly when no candidate is gated on.
HighestScoreFirstInCatalogue ==
    steps = 1 =>
        LET items == mood_scores(fin)
        IN  /\ (items = <<>>) <=> (fout.mood = "neutral")
            /\ items = <<>> => fout.intensity = NEUTRAL_INTENSITY
            /\ items # <<>> =>
                 \E i \in 1..Len(items) :
                    /\ items[i].name = fout.mood
                    /\ \A j \in 1..Len(items) :
                          /\ items[j].score <= items[i].score
                          /\ (j # i /\ items[j].score = items[i].score) =>
                                CatalogueIndex(items[i].name) < CatalogueIndex(items[j].name)

\* restless and depressed tie for the highest score (0.8, also as floats);
\* restless, first in the catalogue, is returned
HighestScoreFirstInCatalogue_witness ==
    /\ steps = 1
    /\ fin["dopamine"] = 0
    /\ fin["serotonin"] = 1000
    /\ fin["cortisol"] = ONE
    /\ \E i, j \in 1..Len(mood_scores(fin)) :
          /\ mood_scores(fin)[i] = [name |-> "restless", score |-> 80000]
          /\ mood_scores(fin)[j] = [name |-> "depressed", score |-> 80000]
    /\ fout = [mood |-> "restless", intensity |-> 80000]

\* the hormone conditions that open the four families of the catalogue
FamilyConditions ==
    [ cortisol  |-> fin["cortisol"] - BASELINE > 1000,
      serotonin |-> fin["serotonin"] - BASELINE < -800,
      dopamine  |-> fin["dopamine"] - BASELINE > 800,
      oxytocin  |-> fin["oxytocin"] - BASELINE > 1000 ]

Family ==
    [ cortisol  |-> {"anxious", "restless", "stressed"},
      serotonin |-> {"depressed", "melancholic", "sad"},
      dopamine  |-> {"euphoric", "cheerful", "energetic"},
      oxytocin  |-> {"loving", "affectionate", "caring"} ]

\* C15: whenever exactly one of the four family conditions holds (cortisol
\* deviation > +0.1, serotonin deviation < -0.08, dopamine deviation > +0.08,
\* oxytocin deviation > +0.1), calculate_mood_from_hormones returns a mood of
\* that family, and never neutral.
FamilyFollowsDominantHormone ==
    (steps = 1 /\ Cardinality({h \in Hormones : FamilyConditions[h]}) = 1) =>
        \A h \in Hormones : FamilyConditions[h] => fout.mood \in Family[h]

\* C27: calculate_mood_from_hormones returns a mood only if the gate of that
\* mood holds on the input: the family condition for the moods of the four
\* families, the conditions of content and of conflicted for these two.
MoodOnlyIfGated ==
    steps = 1 =>
        LET dopa_dev == fin["dopamine"] - BASELINE
            sero_dev == fin["serotonin"] - BASELINE
            cort_dev == fin["cortisol"] - BASELINE
        IN  /\ \A h \in Hormones : fout.mood \in Family[h] => FamilyConditions[h]
            /\ fout.mood = "content" =>
                  dopa_dev > 300 /\ sero_dev > 300 /\ cort_dev < 1000
            /\ fout.mood = "conflicted" =>
                  Abs(dopa_dev) > 500 /\ Abs(sero_dev) > 500 /\ Abs(cort_dev) > 500
            /\ fout.mood \in UNION {Family[h] : h \in Hormones}
                                \cup {"content", "conflicted", "neutral"}

\* cortisol 0.59 with serotonin 0.44 and dopamine 0.56: the cortisol gate is
\* shut, so not anxious; the three deviations exceed 0.05: conflicted
MoodOnlyIfGated_witness ==
    /\ steps = 1
    /\ fin = Levels(5600, 4400, 5900, 5000)
    /\ fout.mood = "conflicted"

\* ---------------------------------------- analyze_contextual_sentiment --

\* classifier results tried: no emotion, one, several, labels in upper case,
\* labels outside the tables; confidences on and around 0.3; toxicity scores
\* on and around 0.5, flagged and not
AnalyzeEmotions ==
    { <<>>,
      <<Emo("joy", 10)>>,
      <<Emo("Joy", 5)>>,
      <<Emo("FEAR", 10)>>,
      <<Emo("sadness", 8), Emo("joy", 2)>>,
      <<Emo("anger", 6), Emo("fear", 4)>>,
      <<Emo("wonder", 9)>>,
      <<Emo("neutral", 9)>> }

AnalyzeConfidences == {0, 2, 3, 4, 10}

AnalyzeToxicities ==
    { NotToxic,
      Tox(TRUE, 9, "TOXIC"),
      Tox(FALSE, 9, "TOXIC"),
      Tox(FALSE, 3, "TOXIC"),
      Tox(TRUE, 5, "toxic"),
      Tox(TRUE, 6, "threat"),
      Tox(TRUE, 10, "severe_toxic"),
      Tox(TRUE, 8, "spam") }

InitAnalyze ==
    /\ fin \in [emotions : AnalyzeEmotions, conf : AnalyzeConfidences,
                toxicity : AnalyzeToxicities]
    /\ fout = analyze_contextual_sentiment(NoSignal)
    /\ steps = 0
    /\ hormones = Levels(BASELINE, BASELINE, BASELINE, BASELINE)
    /\ mood = DefaultMood
    /\ ledger = EmptyLedger
    /\ clock = 0
    /\ last = NoLast
    /\ pc = <<>>
    /\ loc = <<>>

\* analyze_contextual_sentiment(text), fin being what the classifiers return for text
Analyze ==
    /\ steps = 0
    /\ steps' = 1
    /\ fout' = analyze_contextual_sentiment(fin)
    /\ UNCHANGED <<hormones, mood, ledger, clock, last, pc, loc, fin>>

NextAnalyze == Analyze

SpecAnalyze == InitAnalyze /\ [][NextAnalyze]_vars

\* a + b, hormone by hormone
SumOfDeltas(a, b) ==
    [h \in DOMAIN a \cup DOMAIN b |-> Get(a, h, 0) + Get(b, h, 0)]

\* what the first emotion of the list adds when the confidence is above 0.3
\* and its lower-cased label is in the emotion table
EmotionContribution(sig) ==
    IF /\ Len(sig.emotions) > 0
       /\ sig.conf > 3
       /\ Lower(sig.emotions[1].label) \in DOMAIN _EMOTION_HORMONE_MAP
    THEN LET weights == _EMOTION_HORMONE_MAP[Lower(sig.emotions[1].label)]
         IN  [h \in DOMAIN weights |-> weights[h] * sig.emotions[1].score * sig.conf]
    ELSE EmptyMap

\* what a toxicity signal adds when its score is above 0.5 and its lower-cased
\* label is in the toxicity table; `flagged` tells whether is_toxic is required
ToxicityContribution(sig, flagged) ==
    IF /\ sig.toxicity.score > 5
       /\ Lower(sig.toxicity.label) \in DOMAIN _TOXICITY_HORMONE_MAP
       /\ flagged => sig.toxicity.is_toxic
    THEN LET weights == _TOXICITY_HORMONE_MAP[Lower(sig.toxicity.label)]
         IN  [h \in DOMAIN weights |-> weights[h] * sig.toxicity.score * 10]
    ELSE EmptyMap

\* C16: with an overall confidence of at most 0.3 the primary emotion is
\* neutral whatever emotions were detected, and the emotion adds no entry to the
\* delta map; with a confidence above 0.3 and a non-empty emotion list the
\* primary emotion is the lower-cased label of the first emotion.
ConfidenceGate ==
    steps = 1 =>
        /\ fin.conf <= 3 =>
              /\ fout.primary_emotion = "neutral"
              /\ fout.hormone_deltas = ToxicityContribution(fin, TRUE)
        /\ (fin.conf > 3 /\ Len(fin.emotions) > 0) =>
              /\ fout.primary_emotion = Lower(fin.emotions[1].label)
              /\ fin.emotions[1].label \in {"Joy", "joy"} => fout.primary_emotion = "joy"
              /\ fin.emotions[1].label = "FEAR" => fout.primary_emotion = "fear"

\* joy at score 1.0 with a confidence of exactly 0.3: neutral, no delta
ConfidenceGate_witness ==
    /\ steps = 1
    /\ fin = Signal(<<Emo("joy", 10)>>, 3, NotToxic)
    /\ fout.primary_emotion = "neutral"
    /\ fout.hormone_deltas = EmptyMap

FaultLevels ==
    { Levels(5000, 5000, 5000, 5000),
      Levels(3000, 2000, 8000, 4000),
      [dopamine |-> 5000, serotonin |-> 5000, oxytocin |-> 5000],
      [dopamine |-> 6000, serotonin |-> 6000, cortisol |-> 6000] }

FaultSignals ==
    { Signal(<<>>, 3, NotToxic),
      Signal(<<Emo("joy", 10)>>, 10, NotToxic),
      Signal(<<Emo("fear", 10)>>, 10, NotToxic),
      Signal(<<Emo("love", 7)>>, 8, Tox(TRUE, 10, "threat")) }

HistoryFiles ==
    { PastLedger(0), PastLedger(1),
      [status |-> "missing", entries |-> <<>>],
      [status |-> "corrupt", entries |-> <<>>] }

NoCall == [op |-> "none", sig |-> NoSignal, ok |-> FALSE, file |-> EmptyLedger]

InitFaults ==
    /\ hormones \in FaultLevels
    /\ mood = DefaultMood
    /\ ledger \in HistoryFiles
    /\ clock = 2
    /\ steps = 0
    /\ last = NoCall
    /\ pc = <<>>
    /\ loc = <<>>
    /\ fin = <<>>
    /\ fout = [raised |-> FALSE]

\* apply_sentiment_to_mood(text); fout is how the call ends
SentimentCall(sig, hybrid, write_ok) ==
    /\ steps < MaxSteps
    /\ steps' = steps + 1
    /\ last' = [op |-> "apply_sentiment_to_mood", sig |-> sig, ok |-> write_ok, file |-> ledger]
    /\ fout' = apply_sentiment_to_mood_outcome(Files, sig, hybrid)
    /\ SetFiles(apply_sentiment_to_mood(Files, sig, hybrid, write_ok))
    /\ UNCHANGED <<pc, loc, fin>>

\* load_mood_history(), as get_mood_summary calls it; fout is how the call ends
LoadMoodHistoryCall(create_ok) ==
    /\ steps < MaxSteps
    /\ steps' = steps + 1
    /\ last' = [op |-> "load_mood_history", sig |-> NoSignal, ok |-> create_ok, file |-> ledger]
    /\ LET call == load_mood_history_call(ledger, create_ok)
       IN  /\ fout' = [f \in DOMAIN call \ {"file"} |-> call[f]]
           /\ ledger' = call.file
    /\ UNCHANGED <<hormones, mood, clock, pc, loc, fin>>

NextFaults ==
    \/ \E sig \in FaultSignals, hybrid \in BOOLEAN, write_ok \in BOOLEAN :
          SentimentCall(sig, hybrid, write_ok)
    \/ \E create_ok \in BOOLEAN : LoadMoodHistoryCall(create_ok)

SpecFaults == InitFaults /\ [][NextFaults]_vars

\* the moods calculate_mood_from_hormones can return
MoodNames == {Catalogue[i] : i \in 1..Len(Catalogue)} \cup {"neutral"}

LoadMoodHistoryTotal ==
    last.op = "load_mood_history" =>
        /\ ~fout.raised
        /\ last.file.status = "missing" =>
              /\ fout.history = <<>>
              /\ last.ok => ledger = [status |-> "ok", entries |-> <<>>]
              /\ ~last.ok => ledger = last.file
        /\ last.file.status = "corrupt" =>
              /\ fout.history = <<>>
              /\ ledger = last.file
        /\ last.file.status = "ok" =>
              /\ fout.history = last.file.entries
              /\ ledger = last.file

\* a missing history file was read as the empty list and created
LoadMoodHistoryTotal_witness ==
    /\ last.op = "load_mood_history"
    /\ last.file.status = "missing"
    /\ last.ok
    /\ ~fout.raised
    /\ fout.history = <<>>
    /\ ledger = [status |-> "ok", entries |-> <<>>]

\* ------------------------------------------- update_mood_from_hormones --

\* deviations from 0.5 of the stored levels tried: the ends of the domain, the
\* levels of the scenarios of test_mood_calculation, a mild positive level
MoodDeviations == {-5000, -3000, -2000, -1000, 0, 400, 2000, 3000, 4000, 5000}

MoodLevels == {BASELINE + d : d \in MoodDeviations}

\* the current-mood record left by an earlier update
PastMood ==
    mood_data("anxious", 42000, get_mood_context("anxious", 42000, FALSE), 0)

InitMood ==
    /\ hormones \in [Hormones -> MoodLevels]
    /\ mood \in {DefaultMood, PastMood}
    /\ ledger = EmptyLedger
    /\ clock = 0
    /\ steps = 0
    /\ last = [op |-> "none", write_ok |-> FALSE, reason |-> ""]
    /\ pc = <<>>
    /\ loc = <<>>
    /\ fin = <<>>
    /\ fout = [mood |-> "", intensity |-> 0, context |-> <<>>]

\* update_mood_from_hormones(reason); fout is what it returns
MoodFromHormones(reason, hybrid, write_ok) ==
    /\ steps = 0
    /\ steps' = 1
    /\ last' = [op |-> "update_mood_from_hormones", write_ok |-> write_ok, reason |-> reason]
    /\ fout' = MoodResult(Files, hybrid)
    /\ SetFiles(update_mood_from_hormones(Files, reason, hybrid, write_ok))
    /\ UNCHANGED <<pc, loc, fin>>

NextMood ==
    \E reason \in {"hormonal_shift", "contextual_analysis"},
       hybrid \in BOOLEAN, write_ok \in BOOLEAN :
        MoodFromHormones(reason, hybrid, write_ok)

SpecMood == InitMood /\ [][NextMood]_vars

\* C11: for every hormone vector in [0,1]^4 the intensity returned by
\* calculate_mood_from_hormones is in [0.1, 1.0] for a mood other than neutral
\* and exactly 0.5 for neutral, and so is the intensity of every current-mood
\* record and history entry written through update_mood_from_hormones.
IntensityInDomain ==
    LET InDomain(m, i) == IF m = "neutral" THEN i = 50000
                          ELSE 10000 <= i /\ i <= 100000
    IN  /\ steps = 1 => InDomain(fout.mood, fout.intensity)
        /\ InDomain(mood.current_mood, mood.intensity)
        /\ \A k \in 1..Len(ledger.entries) :
              InDomain(ledger.entries[k].mood, ledger.entries[k].intensity)

\* dopamine and serotonin at 0.54: content scores 0.064, returned and recorded as 0.1
IntensityInDomain_witness ==
    /\ steps = 1
    /\ hormones = Levels(5400, 5400, 5000, 5000)
    /\ mood_scores(hormones) = <<[name |-> "content", score |-> 6400]>>
    /\ fout.mood = "content"
    /\ fout.intensity = 10000
    /\ mood.intensity = 10000
    /\ Len(ledger.entries) = 1
    /\ ledger.entries[1].intensity = 10000

\* C12: dopamine 0.3, serotonin 0.2, cortisol 0.8, oxytocin 0.4 is classified as
\* one of anxious, restless, stressed, and not as neutral.
StressScenario ==
    (steps = 1 /\ hormones = Levels(3000, 2000, 8000, 4000)) =>
        /\ fout.mood \in {"anxious", "restless", "stressed"}
        /\ fout.mood # "neutral"

\* the stress vector was classified: anxious, at 0.51
StressScenario_witness ==
    /\ steps = 1
    /\ hormones = Levels(3000, 2000, 8000, 4000)
    /\ fout.mood = "anxious"
    /\ fout.intensity = 51000

\* C13: dopamine 0.8, serotonin 0.7, cortisol 0.3, oxytocin 0.9 is classified as
\* one of loving, affectionate, caring, euphoric, cheerful.
LoveScenario ==
    (steps = 1 /\ hormones = Levels(8000, 7000, 3000, 9000)) =>
        fout.mood \in {"loving", "affectionate", "caring", "euphoric", "cheerful"}

\* the love vector was classified: euphoric, at 0.62
LoveScenario_witness ==
    /\ steps = 1
    /\ hormones = Levels(8000, 7000, 3000, 9000)
    /\ fout.mood = "euphoric"
    /\ fout.intensity = 62000

\* C14: with all four hormones at 0.5, calculate_mood_from_hormones returns
\* exactly ("neutral", 0.5), and what update_mood_from_hormones records (the
\* current-mood record and the appended history entry) is neutral at 0.5.
BaselineScenario ==
    (steps = 1 /\ hormones = Levels(5000, 5000, 5000, 5000)) =>
        /\ fout.mood = "neutral"
        /\ fout.intensity = 50000
        /\ last.write_ok =>
             /\ mood.current_mood = "neutral"
             /\ mood.intensity = 50000
             /\ mood.last_updated = clock - 1
             /\ Len(ledger.entries) = 1
             /\ ledger.entries[1].mood = "neutral"
             /\ ledger.entries[1].intensity = 50000

\* the record of an earlier anxious mood was overwritten by neutral at 0.5
BaselineScenario_witness ==
    /\ steps = 1
    /\ hormones = Levels(5000, 5000, 5000, 5000)
    /\ last.write_ok
    /\ mood.current_mood = "neutral"
    /\ mood.intensity = 50000
    /\ mood.last_updated = 1
    /\ ledger.entries[1].mood = "neutral"

\* --------------------------------- what one update does to the levels --
\* Statements over the runs of Spec, about the last
\* apply_contextual_hormone_adjustments update (called on its own or from
\* apply_sentiment_to_mood): last.before are the levels it loaded, last.sig its
\* signal, hormones the levels it saved.

Applied == last.op \in {"apply_contextual_hormone_adjustments", "apply_sentiment_to_mood"}

\* every hormone decayed once
Decayed(levels) == [h \in DOMAIN levels |-> DecayedLevel(levels[h])]

\* the lower-cased first label passed the confidence gate and is in the
\* emotion table with weights
EmotionMapped(sig) ==
    /\ EmotionFires(sig)
    /\ Lower(sig.emotions[1].label) \in DOMAIN _EMOTION_HORMONE_MAP \ {"neutral"}

\* the lower-cased label passed the toxicity gate and is in the toxicity table
ToxicityMapped(sig) ==
    /\ ToxicityFires(sig)
    /\ Lower(sig.toxicity.label) \in DOMAIN _TOXICITY_HORMONE_MAP

\* C24: an update decays the levels exactly when the delta map is empty, which
\* is exactly when no emotion with weights and no toxicity label of the table
\* fired; with a non-empty map the deltas are applied and nothing is decayed.
DecayIffNoDelta ==
    Applied =>
        LET deltas == analyze_contextual_sentiment(last.sig).hormone_deltas
        IN  /\ DOMAIN deltas = {} <=> (~EmotionMapped(last.sig) /\ ~ToxicityMapped(last.sig))
            /\ DOMAIN deltas = {} => hormones = Decayed(last.before)
            /\ DOMAIN deltas # {} =>
                  \A h \in Hormones :
                      hormones[h] = IF h \in DOMAIN deltas
                                    THEN AdjustedLevel(last.before[h], deltas[h])
                                    ELSE last.before[h]

\* a decay update (empty list of emotions) followed by a delta update (fear)
\* in which cortisol, off the baseline, rose by the full delta and oxytocin
\* was not decayed
DecayIffNoDelta_witness ==
    /\ steps = 2
    /\ last.op = "apply_contextual_hormone_adjustments"
    /\ last.sig = Signal(<<Emo("fear", 10)>>, 10, NotToxic)
    /\ last.before = Levels(3100, 2100, 7900, 4100)
    /\ hormones["oxytocin"] = 4100
    /\ hormones["cortisol"] > 7900

\* C25: in an update with a non-empty delta map every hormone without an
\* entry keeps its level; joy changes dopamine and serotonin only.
NoDeltaNoChange ==
    Applied =>
        LET deltas == analyze_contextual_sentiment(last.sig).hormone_deltas
        IN  /\ DOMAIN deltas # {} =>
                  \A h \in Hormones \ DOMAIN deltas : hormones[h] = last.before[h]
            /\ last.sig = Signal(<<Emo("joy", 10)>>, 10, NotToxic) =>
                  /\ DOMAIN deltas = {"dopamine", "serotonin"}
                  /\ hormones["cortisol"] = last.before["cortisol"]
                  /\ hormones["oxytocin"] = last.before["oxytocin"]

\* joy applied to levels off the baseline: dopamine and serotonin rose,
\* cortisol and oxytocin stayed where a decay would have moved them
NoDeltaNoChange_witness ==
    /\ last.op = "apply_contextual_hormone_adjustments"
    /\ last.sig = Signal(<<Emo("joy", 10)>>, 10, NotToxic)
    /\ last.before = Levels(3000, 2000, 8000, 4000)
    /\ hormones["dopamine"] > 3000
    /\ hormones["serotonin"] > 2000
    /\ hormones["cortisol"] = 8000
    /\ hormones["oxytocin"] = 4000

\* C26: a label that passed its gate but is in neither table adds no delta
\* and no reason tag, and the update raises nothing; when no label of a table
\* fired beside it, the update is a plain decay.
UnmappedLabelsIgnored ==
    Applied =>
        LET sig == last.sig
            analysis == analyze_contextual_sentiment(sig)
            tags == {analysis.adjustment_reasons[i] : i \in DOMAIN analysis.adjustment_reasons}
            emotion_unmapped ==
                /\ EmotionFires(sig)
                /\ Lower(sig.emotions[1].label) \notin DOMAIN _EMOTION_HORMONE_MAP
            toxicity_unmapped ==
                /\ ToxicityFires(sig)
                /\ Lower(sig.toxicity.label) \notin DOMAIN _TOXICITY_HORMONE_MAP
        IN  /\ emotion_unmapped =>
                  /\ \A t \in tags : t[1] # "emotion"
                  /\ analysis.hormone_deltas = ToxicityContribution(sig, TRUE)
            /\ toxicity_unmapped =>
                  /\ \A t \in tags : t[1] # "toxicity"
                  /\ analysis.hormone_deltas = EmotionContribution(sig)
            /\ (emotion_unmapped \/ toxicity_unmapped) =>
                  /\ ~apply_contextual_raises(last.before, sig)
                  /\ (~EmotionMapped(sig) /\ ~ToxicityMapped(sig)) =>
                        /\ tags = {}
                        /\ hormones = Decayed(last.before)

\* "wonder" with a toxicity label "spam", both above their gates: one decay step
UnmappedLabelsIgnored_witness ==
    /\ last.op = "apply_contextual_hormone_adjustments"
    /\ last.sig = Signal(<<Emo("wonder", 9)>>, 10, Tox(TRUE, 8, "spam"))
    /\ last.before = Levels(3000, 2000, 8000, 4000)
    /\ hormones = Levels(3100, 2100, 7900, 4100)

\* C30: in an update no level moves by more than 0.08, nor against the sign of
\* its delta; in a decay update a level moves by at most 0.01, toward 0.5 and
\* not across it.
BoundedMoveWithTheDelta ==
    Applied =>
        LET deltas == analyze_contextual_sentiment(last.sig).hormone_deltas
        IN  \A h \in Hormones :
                LET old == last.before[h]
                    new == hormones[h]
                IN  /\ Abs(new - old) <= _RATE_LIMIT
                    /\ (h \in DOMAIN deltas /\ deltas[h] > 0) => new >= old
                    /\ (h \in DOMAIN deltas /\ deltas[h] < 0) => new <= old
                    /\ DOMAIN deltas = {} =>
                          /\ Abs(new - old) <= _DECAY_STEP
                          /\ Abs(new - BASELINE) <= Abs(old - BASELINE)
                          /\ (new - BASELINE) * (old - BASELINE) >= 0

\* sadness (serotonin -0.048, cortisol +0.0288, dopamine -0.0192 before the
\* resistance) moved each of the three its own way, by less than 0.08
BoundedMoveWithTheDelta_witness ==
    /\ last.op = "apply_contextual_hormone_adjustments"
    /\ last.sig = Signal(<<Emo("sadness", 8), Emo("joy", 2)>>, 6, NotToxic)
    /\ last.before = Levels(8000, 7000, 3000, 9000)
    /\ hormones["serotonin"] < 7000
    /\ hormones["dopamine"] < 8000
    /\ hormones["cortisol"] > 3000
    /\ hormones["oxytocin"] = 9000

====
